---- MODULE Spec2Model ----
(***************************************************************************)
(* presutaoru: PSI trigger file descriptors (fd.rs), the identifier-keyed  *)
(* registry PsiMonitor (monitor.rs), the epoll thread engine PsiThread     *)
(* (thread.rs) and the tokio engine PsiTokioReactor (tokio.rs).            *)
(*                                                                         *)
(* One program run: a PsiMonitor is filled with add_fd / remove_fd /       *)
(* clear, then consumed by into_thread or into_tokio_reactor; the engine   *)
(* is started, received from and dropped.  The kernel side (PSI triggers   *)
(* firing, what epoll_wait returns) is the environment.                    *)
(***************************************************************************)
EXTENDS Integers, Sequences, FiniteSets, TLC

\* ---------------------------------------------------------------- bounds
MaxFds    == 2    \* PsiFd values created during a run that goes on to an engine
MaxRegFds == 4    \* PsiFd values created during a run of the registry alone
MaxStarts == 2    \* successful calls of start() on one engine
MaxFires  == 2    \* PSI trigger occurrences
MaxFaults == 1    \* epoll_wait / readable() calls that return an error (EINTR included)

\* the identifier type T, as the examples instantiate it (enum Id)
Ids     == {"Some1In2_000_000", "Some2In2_000_000"}
\* a registry over Ids has at most this many entries, an engine as many slots
MaxSlots == Cardinality(Ids)
Handles == 1..(IF MaxRegFds > MaxFds THEN MaxRegFds ELSE MaxFds)
Threads == 1..MaxStarts

\* monitor.rs: FxHashMap<T, PsiFd>; an absent key is NoFd
NoFd == 0
\* thread.rs:52: the eventfd is registered with data u64::MAX (all bits set)
SENTINEL == -1
\* no key: Event::Failure carries no id, and a handle outside the registry has none
NoKey == ""

VARIABLES
    \* ---- fd.rs / monitor.rs
    phase,       \* "monitor" | "thread" | "tokio" | "buildfailed"
    map,         \* PsiMonitor.map : Ids -> Handles \cup {NoFd}
    fdst,        \* per handle: "none" (not created) | "open" | "closed"
    fromb,       \* per handle: PsiFd.from_builder
    nfd,         \* handles created so far
    panicked,    \* add_fd panicked
    res,         \* what the last API call returned
    \* ---- thread.rs: PsiThread / PsiThreadInner
    ids,         \* PsiThreadInner.ids   (slot i is ids[i+1])
    fds,         \* PsiThread._fds       (slot i is fds[i+1])
    handle,      \* PsiThread.handle: 0 = None, t = Some(join handle of thread t)
    nstart,      \* calls of start() that returned Ok (PsiThread: threads spawned)
    tpc,         \* per thread: "none" | "wait" | "dispatch" | "exited"
    tev,         \* per thread: events[..num] still to be handled
    refs,        \* strong count of Arc<PsiThreadInner> (owns epfd and tx)
    epfd,        \* "none" | "open" | "closed"
    efd,         \* "none" | "open" | "closed"
    efdw,        \* the eventfd counter is non-zero
    dpc,         \* position of Drop: "alive" | "join" | "rx" | "inner" | "fds" | "efd" | "done"
    \* ---- tokio.rs: PsiTokioReactor / PsiTokioReactorInner
    tinner,      \* PsiTokioReactor.inner : per slot TRUE = Some(..), FALSE = None
    aborth,      \* abort_handles: <<>> = None, <<S>> = Some(tasks S)
    kpc,         \* per slot task: "none" | "await" | "ok" | "err" | "done" | "cancelled"
    kabort,      \* per slot: abort() was requested for the task
    ntx,         \* live UnboundedSender clones
    \* ---- shared by both engines
    rx,          \* receiver: "none" | "open" | "dropped"
    chan,        \* events sent and not yet received
    cpc,         \* consumer: "idle" | "recv" (inside rx.recv())
    ready,       \* slots whose trigger fired and was not yet reported
    \* ---- history (not program state)
    replaced,    \* handles that add_fd put out of the map by inserting over them
    keyOf,       \* per handle: the key it had in the map when the engine was built
    fired,       \* per handle: trigger occurrences
    reported,    \* per handle: occurrences the kernel handed to the program
    sent,        \* every event ever sent, in order
    rcvd,        \* every event recv() has returned, in order
    wakes,       \* calls of epoll_wait that returned Ok(num)
    sentAfterAbort, \* a send happened after Drop requested cancellation
    kfailed,     \* tokio tasks (slots, from 1) whose readable() has failed
    nfires, nfaults

monVars  == <<phase, map, fdst, fromb, nfd, panicked, res>>
thrVars  == <<ids, fds, handle, nstart, tpc, tev, refs, epfd, efd, efdw, dpc>>
tokVars  == <<tinner, aborth, kpc, kabort, ntx>>
chVars   == <<rx, chan, cpc, ready>>
histVars == <<replaced, keyOf, rcvd, wakes, fired, reported, sent, sentAfterAbort, kfailed, nfires, nfaults>>
vars     == <<monVars, thrVars, tokVars, chVars, histVars>>

\* ---------------------------------------------------------------- helpers
Range(s) == {s[i] : i \in DOMAIN s}

Keys == {k \in Ids : map[k] # NoFd}

\* all orders in which a hash map can hand out the keys K
Orders(K) == {o \in [1..Cardinality(K) -> K] : \A i, j \in DOMAIN o : o[i] = o[j] => i = j}

\* monitor.rs: enum Event<T> { Ready(T), Failure(Error) }
Ready(id)   == <<"Ready", id, "">>
Failure(e)  == <<"Failure", NoKey, e>>
\* any other value an API call returns (or "Pending": it has not returned)
Result(r)   == <<r, NoKey, "">>
IsReady(e)   == e[1] = "Ready"
IsFailure(e) == e[1] = "Failure"

RECURSIVE CountIn(_, _)
CountIn(s, e) == IF s = <<>> THEN 0
                 ELSE (IF Head(s) = e THEN 1 ELSE 0) + CountIn(Tail(s), e)

\* ---------------------------------------------------------------- fd.rs
\* PsiFdBuilder::build: the returned PsiFd is marked from_builder
PsiFdBuilder_build(h) == [fd |-> h, from_builder |-> TRUE]
\* PsiFd::new_unchecked: any OwnedFd, not marked
new_unchecked(h) == [fd |-> h, from_builder |-> FALSE]

\* ---------------------------------------------------------------- Init
Init ==
    /\ phase = "monitor"
    /\ map = [k \in Ids |-> NoFd]
    /\ fdst = [h \in Handles |-> "none"]
    /\ fromb = [h \in Handles |-> FALSE]
    /\ nfd = 0
    /\ panicked = FALSE
    /\ res = Result("None")
    /\ ids = <<>> /\ fds = <<>>
    /\ handle = 0 /\ nstart = 0
    /\ tpc = [t \in Threads |-> "none"]
    /\ tev = [t \in Threads |-> <<>>]
    /\ refs = 0
    /\ epfd = "none" /\ efd = "none" /\ efdw = FALSE
    /\ dpc = "alive"
    /\ tinner = <<>> /\ aborth = <<>> /\ kpc = <<>> /\ kabort = <<>> /\ ntx = 0
    /\ rx = "none" /\ chan = <<>> /\ cpc = "idle" /\ ready = {}
    /\ replaced = {}
    /\ keyOf = [h \in Handles |-> NoKey]
    /\ fired = [h \in Handles |-> 0]
    /\ reported = [h \in Handles |-> 0]
    /\ sent = <<>> /\ rcvd = <<>> /\ wakes = 0
    /\ sentAfterAbort = FALSE
    /\ kfailed = {}
    /\ nfires = 0 /\ nfaults = 0

\* ---------------------------------------------------------------- monitor.rs
\* add_fd keeping a replaced value alive (the old handle is never closed)
add_fd_keep_old(id, fd) ==
    /\ phase = "monitor" /\ ~panicked
    /\ fdst[fd.fd] = "none"
    /\ fromb' = [fromb EXCEPT ![fd.fd] = fd.from_builder]
    /\ nfd' = nfd + 1
    /\ IF ~fd.from_builder
       THEN /\ panicked' = TRUE
            /\ fdst' = [fdst EXCEPT ![fd.fd] = "closed"]
            /\ res' = Result("Panic")
            /\ UNCHANGED map
       ELSE /\ panicked' = FALSE
            /\ map' = [map EXCEPT ![id] = fd.fd]
            /\ fdst' = [fdst EXCEPT ![fd.fd] = "open"]
            /\ res' = Result("Unit")
    /\ replaced' = IF fd.from_builder /\ map[id] # NoFd THEN replaced \cup {map[id]} ELSE replaced
    /\ UNCHANGED <<phase, thrVars, tokVars, chVars,
                   keyOf, rcvd, wakes, fired, reported, sent, sentAfterAbort, kfailed, nfires, nfaults>>

\* add_fd without the from_builder check
add_fd_unchecked(id, fd) ==
    /\ phase = "monitor" /\ ~panicked
    /\ fdst[fd.fd] = "none"
    /\ fromb' = [fromb EXCEPT ![fd.fd] = fd.from_builder]
    /\ nfd' = nfd + 1
    /\ panicked' = FALSE
    /\ map' = [map EXCEPT ![id] = fd.fd]
    /\ fdst' = [h \in Handles |->
                  IF h = fd.fd THEN "open"
                  ELSE IF h = map[id] THEN "closed" ELSE fdst[h]]
    /\ res' = Result("Unit")
    /\ replaced' = IF map[id] # NoFd THEN replaced \cup {map[id]} ELSE replaced
    /\ UNCHANGED <<phase, thrVars, tokVars, chVars,
                   keyOf, rcvd, wakes, fired, reported, sent, sentAfterAbort, kfailed, nfires, nfaults>>

\* PsiMonitor::add_fd: panics on a PsiFd that did not come from the builder
\* (the argument is dropped while unwinding), else inserts; a value already
\* under the key is replaced and dropped, which closes it.
add_fd(id, fd) ==
    /\ phase = "monitor" /\ ~panicked
    /\ fdst[fd.fd] = "none"
    /\ fromb' = [fromb EXCEPT ![fd.fd] = fd.from_builder]
    /\ nfd' = nfd + 1
    /\ IF ~fd.from_builder
       THEN /\ panicked' = TRUE
            /\ fdst' = [fdst EXCEPT ![fd.fd] = "closed"]
            /\ res' = Result("Panic")
            /\ UNCHANGED map
       ELSE /\ panicked' = FALSE
            /\ map' = [map EXCEPT ![id] = fd.fd]
            /\ fdst' = [h \in Handles |->
                          IF h = fd.fd THEN "open"
                          ELSE IF h = map[id] THEN "closed" ELSE fdst[h]]
            /\ res' = Result("Unit")
    /\ replaced' = IF fd.from_builder /\ map[id] # NoFd THEN replaced \cup {map[id]} ELSE replaced
    /\ UNCHANGED <<phase, thrVars, tokVars, chVars,
                   keyOf, rcvd, wakes, fired, reported, sent, sentAfterAbort, kfailed, nfires, nfaults>>

\* a caller makes a PsiFd (builder or new_unchecked) and adds it
AddFd ==
    \E id \in Ids, fb \in BOOLEAN :
        /\ nfd < MaxFds
        /\ add_fd(id, IF fb THEN PsiFdBuilder_build(nfd + 1) ELSE new_unchecked(nfd + 1))

\* the same caller in a run that only works on the registry
RegistryAddFd ==
    \E id \in Ids, fb \in BOOLEAN :
        /\ nfd < MaxRegFds
        /\ add_fd(id, IF fb THEN PsiFdBuilder_build(nfd + 1) ELSE new_unchecked(nfd + 1))

\* PsiMonitor::remove_fd
remove_fd(id) ==
    /\ phase = "monitor" /\ ~panicked
    /\ IF map[id] = NoFd
       THEN /\ res' = Result("NotFound")
            /\ UNCHANGED <<map, fdst>>
       ELSE /\ res' = Result("Ok")
            /\ map' = [map EXCEPT ![id] = NoFd]
            /\ fdst' = [fdst EXCEPT ![map[id]] = "closed"]
    /\ UNCHANGED <<phase, fromb, nfd, panicked, thrVars, tokVars, chVars, histVars>>

RemoveFd == \E id \in Ids : remove_fd(id)

\* PsiMonitor::clear
clear ==
    /\ phase = "monitor" /\ ~panicked
    /\ map' = [k \in Ids |-> NoFd]
    /\ fdst' = [h \in Handles |-> IF \E k \in Keys : map[k] = h THEN "closed" ELSE fdst[h]]
    /\ res' = Result("Unit")
    /\ UNCHANGED <<phase, fromb, nfd, panicked, thrVars, tokVars, chVars, histVars>>

\* ---------------------------------------------------------------- thread.rs
\* where PsiThread::new can return early through `?`
FailPoints(n) ==
    {<<"ok">>, <<"epoll_create">>, <<"eventfd">>, <<"efd_add">>} \cup {<<"add", i>> : i \in 1..n}

\* PsiThread::new(map), the map handing out its entries in order o and the
\* system calls succeeding up to f.  The handles already moved into the
\* Box<[MaybeUninit<PsiFd>]> are not dropped by an early return: MaybeUninit
\* never drops its content.  The entry in hand and the entries still in the
\* iterator are dropped (closed), and so are the locals epfd and efd.
PsiThread_new(o, f) ==
    LET n == Len(o)
        slotOf(h) == CHOOSE i \in 1..n : map[o[i]] = h
        inMap(h) == \E k \in Keys : map[k] = h
    IN
    /\ phase = "monitor" /\ ~panicked
    /\ map' = [k \in Ids |-> NoFd]
    /\ IF f = <<"ok">>
       THEN /\ phase' = "thread"
            /\ ids' = o
            /\ fds' = [i \in 1..n |-> map[o[i]]]
            /\ refs' = 1
            /\ epfd' = "open" /\ efd' = "open"
            /\ rx' = "open"
            /\ keyOf' = [h \in Handles |-> IF inMap(h) THEN CHOOSE k \in Keys : map[k] = h ELSE NoKey]
            /\ res' = Result("Ok")
            /\ UNCHANGED fdst
       ELSE /\ phase' = "buildfailed"
            /\ res' = Result("Err")
            /\ epfd' = IF f = <<"epoll_create">> THEN "none" ELSE "closed"
            /\ efd' = IF f = <<"efd_add">> THEN "closed" ELSE "none"
            /\ fdst' = [h \in Handles |->
                          IF ~inMap(h) THEN fdst[h]
                          ELSE IF f = <<"epoll_create">> THEN "closed"
                          ELSE IF f[1] = "add" /\ slotOf(h) >= f[2] THEN "closed"
                          ELSE "open"]
            /\ UNCHANGED <<ids, fds, refs, rx, keyOf>>
    /\ UNCHANGED <<fromb, nfd, panicked, handle, nstart, tpc, tev, efdw, dpc,
                   tokVars, chan, cpc, ready,
                   replaced, rcvd, wakes, fired, reported, sent, sentAfterAbort, kfailed, nfires, nfaults>>

\* PsiMonitor::into_thread
into_thread == \E o \in Orders(Keys) : \E f \in FailPoints(Len(o)) : PsiThread_new(o, f)

\* PsiThread::start: spawns a thread running epoll_loop on a clone of the Arc
\* and stores its JoinHandle over whatever self.handle held (a JoinHandle
\* that is overwritten is dropped, which detaches its thread).  A failing
\* spawn returns the error through `?` before the assignment.
PsiThread_start(spawned) ==
    /\ phase = "thread" /\ cpc = "idle" /\ dpc = "alive"
    /\ IF spawned
       THEN /\ nstart < MaxStarts
            /\ nstart' = nstart + 1
            /\ handle' = nstart + 1
            /\ tpc' = [tpc EXCEPT ![nstart + 1] = "wait"]
            /\ refs' = refs + 1
            /\ res' = Result("Ok")
       ELSE /\ res' = Result("Err")
            /\ UNCHANGED <<nstart, handle, tpc, refs>>
    /\ UNCHANGED <<phase, map, fdst, fromb, nfd, panicked,
                   ids, fds, tev, epfd, efd, efdw, dpc,
                   tokVars, chVars, histVars>>

ThreadStart == \E spawned \in BOOLEAN : PsiThread_start(spawned)

\* ---------------------------------------------------------------- the kernel
\* a PSI trigger fires on the handle of slot s (slots count from 0, as the
\* epoll data does); the kernel keeps one pending occurrence per trigger
Fire(s) ==
    /\ phase \in {"thread", "tokio"}
    /\ s \in 0..(Len(fds) - 1)
    /\ fdst[fds[s + 1]] = "open"
    /\ s \notin ready
    /\ nfires < MaxFires
    /\ ready' = ready \cup {s}
    /\ fired' = [fired EXCEPT ![fds[s + 1]] = @ + 1]
    /\ nfires' = nfires + 1
    /\ UNCHANGED <<monVars, thrVars, tokVars, rx, chan, cpc,
                   replaced, keyOf, rcvd, wakes, reported, sent, sentAfterAbort, kfailed, nfaults>>

TriggerFires == \E s \in 0..(MaxSlots - 1) : Fire(s)

\* what epoll has to report: fired triggers (EPOLLPRI) and, once written and
\* until closed, the eventfd (EPOLLIN, level-triggered, never read)
ReadyItems == ready \cup (IF efdw /\ efd = "open" THEN {SENTINEL} ELSE {})

\* epoll_loop line 129: the events buffer has ids.len() entries
Cap == Len(ids)

\* the results Ok(num) of one epoll_wait: between 1 and Cap distinct ready
\* items, in any order
Batches ==
    {b \in UNION {[1..k -> ReadyItems] : k \in 1..Cap} :
        \A i, j \in DOMAIN b : b[i] = b[j] => i = j}

\* the thread's closure returns: its clone of the Arc is dropped, and the
\* last owner closes epfd and drops tx
ExitThread(t) ==
    /\ tpc' = [tpc EXCEPT ![t] = "exited"]
    /\ tev' = [tev EXCEPT ![t] = <<>>]
    /\ refs' = refs - 1
    /\ epfd' = IF refs = 1 THEN "closed" ELSE epfd

\* epoll_loop, lines 133-134: epfd.wait returns Ok(num) with the batch b
WaitOk(t, b) ==
    /\ phase = "thread" /\ tpc[t] = "wait"
    /\ b \in Batches
    /\ ready' = ready \ Range(b)
    /\ reported' = [h \in Handles |->
                      IF \E s \in Range(b) : s # SENTINEL /\ fds[s + 1] = h
                      THEN reported[h] + 1 ELSE reported[h]]
    /\ tev' = [tev EXCEPT ![t] = b]
    /\ tpc' = [tpc EXCEPT ![t] = "dispatch"]
    /\ wakes' = wakes + 1
    /\ UNCHANGED <<monVars, ids, fds, handle, nstart, refs, epfd, efd, efdw, dpc,
                   tokVars, rx, chan, cpc,
                   replaced, keyOf, rcvd, fired, sent, sentAfterAbort, kfailed, nfires, nfaults>>

\* the slot table read from the wrong end
IdOfSlot_reversed(data) == ids[Len(ids) - data]

\* epoll_loop, line 139: self.ids[ev.data() as usize]
IdOfSlot(data) == ids[data + 1]

\* the loop stepping over the sentinel instead of returning at it
Dispatch_past_sentinel(t) ==
    /\ phase = "thread" /\ tpc[t] = "dispatch"
    /\ LET ev == Head(tev[t]) IN
       IF ev # SENTINEL /\ rx # "open"
       THEN /\ ExitThread(t)
            /\ UNCHANGED <<chan, sent>>
       ELSE /\ chan' = IF ev = SENTINEL THEN chan ELSE Append(chan, Ready(IdOfSlot(ev)))
            /\ sent' = IF ev = SENTINEL THEN sent ELSE Append(sent, Ready(IdOfSlot(ev)))
            /\ tev' = [tev EXCEPT ![t] = Tail(@)]
            /\ tpc' = [tpc EXCEPT ![t] = IF Tail(tev[t]) = <<>> THEN "wait" ELSE "dispatch"]
            /\ UNCHANGED <<refs, epfd>>
    /\ UNCHANGED <<monVars, ids, fds, handle, nstart, efd, efdw, dpc,
                   tokVars, rx, cpc, ready,
                   replaced, keyOf, rcvd, wakes, fired, reported, sentAfterAbort, kfailed, nfires, nfaults>>

\* epoll_loop, lines 135-141: one iteration of `for ev in &events[..num]`
Dispatch(t) ==
    /\ phase = "thread" /\ tpc[t] = "dispatch"
    /\ LET ev == Head(tev[t]) IN
       IF ev = SENTINEL
       THEN /\ ExitThread(t)
            /\ UNCHANGED <<chan, sent>>
       ELSE IF rx = "open"
       THEN /\ chan' = Append(chan, Ready(IdOfSlot(ev)))
            /\ sent' = Append(sent, Ready(IdOfSlot(ev)))
            /\ tev' = [tev EXCEPT ![t] = Tail(@)]
            /\ tpc' = [tpc EXCEPT ![t] = IF Tail(tev[t]) = <<>> THEN "wait" ELSE "dispatch"]
            /\ UNCHANGED <<refs, epfd>>
       ELSE /\ ExitThread(t)
            /\ UNCHANGED <<chan, sent>>
    /\ UNCHANGED <<monVars, ids, fds, handle, nstart, efd, efdw, dpc,
                   tokVars, rx, cpc, ready,
                   replaced, keyOf, rcvd, wakes, fired, reported, sentAfterAbort, kfailed, nfires, nfaults>>

\* EINTR handled like any other errno: reported as a Failure, loop left
WaitInterrupted_fatal(t) ==
    /\ phase = "thread" /\ tpc[t] = "wait"
    /\ Cap > 0
    /\ nfaults < MaxFaults
    /\ nfaults' = nfaults + 1
    /\ IF rx = "open"
       THEN /\ chan' = Append(chan, Failure("EINTR"))
            /\ sent' = Append(sent, Failure("EINTR"))
       ELSE UNCHANGED <<chan, sent>>
    /\ ExitThread(t)
    /\ UNCHANGED <<monVars, ids, fds, handle, nstart, efd, efdw, dpc,
                   tokVars, rx, cpc, ready,
                   replaced, keyOf, rcvd, wakes, fired, reported, sentAfterAbort, kfailed, nfires>>

\* epoll_loop, lines 144-146: Err(EINTR | EAGAIN) => continue
WaitInterrupted(t) ==
    /\ phase = "thread" /\ tpc[t] = "wait"
    /\ Cap > 0
    /\ nfaults < MaxFaults
    /\ nfaults' = nfaults + 1
    /\ UNCHANGED <<monVars, thrVars, tokVars, chVars,
                   replaced, keyOf, rcvd, wakes, fired, reported, sent, sentAfterAbort, kfailed, nfires>>

\* EBADF without its own arm: reported as a Failure like any other errno
WaitFailed_ebadf_reported(t, e) ==
    /\ phase = "thread" /\ tpc[t] = "wait"
    /\ IF Cap = 0
       THEN e = "EINVAL" /\ UNCHANGED nfaults
       ELSE e \in {"EBADF", "EFAULT"} /\ nfaults < MaxFaults /\ nfaults' = nfaults + 1
    /\ IF rx = "open"
       THEN /\ chan' = Append(chan, Failure(e))
            /\ sent' = Append(sent, Failure(e))
       ELSE UNCHANGED <<chan, sent>>
    /\ ExitThread(t)
    /\ UNCHANGED <<monVars, ids, fds, handle, nstart, efd, efdw, dpc,
                   tokVars, rx, cpc, ready,
                   replaced, keyOf, rcvd, wakes, fired, reported, sentAfterAbort, kfailed, nfires>>

\* epoll_loop, lines 148-154: Err(EBADF) returns; any other errno is sent as
\* Event::Failure and the loop returns.  With an empty events buffer
\* (Cap = 0) epoll_wait fails with EINVAL at once; otherwise the errno is the
\* kernel's choice.
WaitFailed(t, e) ==
    /\ phase = "thread" /\ tpc[t] = "wait"
    /\ IF Cap = 0
       THEN e = "EINVAL" /\ UNCHANGED nfaults
       ELSE e \in {"EBADF", "EFAULT"} /\ nfaults < MaxFaults /\ nfaults' = nfaults + 1
    /\ IF e # "EBADF" /\ rx = "open"
       THEN /\ chan' = Append(chan, Failure(e))
            /\ sent' = Append(sent, Failure(e))
       ELSE UNCHANGED <<chan, sent>>
    /\ ExitThread(t)
    /\ UNCHANGED <<monVars, ids, fds, handle, nstart, efd, efdw, dpc,
                   tokVars, rx, cpc, ready,
                   replaced, keyOf, rcvd, wakes, fired, reported, sentAfterAbort, kfailed, nfires>>

\* PsiThreadInner::epoll_loop, one step of thread t
epoll_loop(t) ==
    \/ \E b \in Batches : WaitOk(t, b)
    \/ Dispatch(t)
    \/ WaitInterrupted(t)
    \/ \E e \in {"EBADF", "EFAULT", "EINVAL"} : WaitFailed(t, e)

ThreadStep == \E t \in Threads : epoll_loop(t)

\* recv without the check of self.handle
PsiThread_recv_unchecked ==
    /\ phase = "thread" /\ cpc = "idle" /\ dpc = "alive"
    /\ cpc' = "recv"
    /\ res' = Result("Pending")
    /\ UNCHANGED <<phase, map, fdst, fromb, nfd, panicked, thrVars, tokVars,
                   rx, chan, ready, histVars>>

\* PsiThread::recv, lines 81-86: the check of self.handle; past it the caller
\* is inside rx.recv()
PsiThread_recv ==
    /\ phase = "thread" /\ cpc = "idle" /\ dpc = "alive"
    /\ IF handle = 0
       THEN /\ res' = Result("NotConnected")
            /\ UNCHANGED cpc
       ELSE /\ cpc' = "recv"
            /\ res' = Result("Pending")
    /\ UNCHANGED <<phase, map, fdst, fromb, nfd, panicked, thrVars, tokVars,
                   rx, chan, ready, histVars>>

\* a receive that hands out the newest event of the channel
PsiThread_recv_return_lifo ==
    /\ phase = "thread" /\ cpc = "recv"
    /\ chan # <<>> \/ refs = 0
    /\ IF chan # <<>>
       THEN /\ res' = chan[Len(chan)]
            /\ chan' = SubSeq(chan, 1, Len(chan) - 1)
            /\ rcvd' = Append(rcvd, chan[Len(chan)])
       ELSE /\ res' = Result("BrokenPipe")
            /\ UNCHANGED <<chan, rcvd>>
    /\ cpc' = "idle"
    /\ UNCHANGED <<phase, map, fdst, fromb, nfd, panicked, thrVars, tokVars,
                   rx, ready,
                   replaced, keyOf, wakes, fired, reported, sent, sentAfterAbort, kfailed, nfires, nfaults>>

\* PsiThread::recv, lines 87-92: rx.recv() returns the oldest event, or an
\* error once the channel is empty and every Sender is gone; the only Sender
\* is the tx inside the Arc<PsiThreadInner>
PsiThread_recv_return ==
    /\ phase = "thread" /\ cpc = "recv"
    /\ chan # <<>> \/ refs = 0
    /\ IF chan # <<>>
       THEN /\ res' = Head(chan)
            /\ chan' = Tail(chan)
            /\ rcvd' = Append(rcvd, Head(chan))
       ELSE /\ res' = Result("BrokenPipe")
            /\ UNCHANGED <<chan, rcvd>>
    /\ cpc' = "idle"
    /\ UNCHANGED <<phase, map, fdst, fromb, nfd, panicked, thrVars, tokVars,
                   rx, ready,
                   replaced, keyOf, wakes, fired, reported, sent, sentAfterAbort, kfailed, nfires, nfaults>>

\* Drop for PsiThread, line 102: self.efd.write(1)
DropWrite ==
    /\ phase = "thread" /\ cpc = "idle" /\ dpc = "alive"
    /\ efdw' = TRUE
    /\ dpc' = "join"
    /\ res' = Result("Dropping")
    /\ UNCHANGED <<phase, map, fdst, fromb, nfd, panicked,
                   ids, fds, handle, nstart, tpc, tev, refs, epfd, efd,
                   tokVars, chVars, histVars>>

\* a drop that waits for a dispatch thread whether or not one was started
DropJoin_always ==
    /\ phase = "thread" /\ dpc = "join"
    /\ handle # 0 /\ tpc[handle] = "exited"
    /\ handle' = 0
    /\ dpc' = "rx"
    /\ UNCHANGED <<monVars, ids, fds, nstart, tpc, tev, refs, epfd, efd, efdw,
                   tokVars, chVars, histVars>>

\* Drop for PsiThread, lines 103-105: join the thread whose JoinHandle is in
\* self.handle, if any
DropJoin ==
    /\ phase = "thread" /\ dpc = "join"
    /\ handle # 0 => tpc[handle] = "exited"
    /\ handle' = 0
    /\ dpc' = "rx"
    /\ UNCHANGED <<monVars, ids, fds, nstart, tpc, tev, refs, epfd, efd, efdw,
                   tokVars, chVars, histVars>>

\* after drop() the fields are dropped in declaration order (lines 28-33):
\* handle, rx, inner, _fds, efd
DropFields ==
    /\ phase = "thread"
    /\ \/ /\ dpc = "rx"
          /\ rx' = "dropped" /\ chan' = <<>>
          /\ dpc' = "inner"
          /\ UNCHANGED <<refs, epfd, fdst, ready, efd>>
       \/ /\ dpc = "inner"
          /\ refs' = refs - 1
          /\ epfd' = IF refs = 1 THEN "closed" ELSE epfd
          /\ dpc' = "fds"
          /\ UNCHANGED <<rx, chan, fdst, ready, efd>>
       \/ /\ dpc = "fds"
          /\ fdst' = [h \in Handles |-> IF h \in Range(fds) THEN "closed" ELSE fdst[h]]
          /\ ready' = {}
          /\ dpc' = "efd"
          /\ UNCHANGED <<rx, chan, refs, epfd, efd>>
       \/ /\ dpc = "efd"
          /\ efd' = "closed"
          /\ dpc' = "done"
          /\ UNCHANGED <<rx, chan, refs, epfd, fdst, ready>>
    /\ UNCHANGED <<phase, map, fromb, nfd, panicked, res,
                   ids, fds, handle, nstart, tpc, tev, efdw,
                   tokVars, cpc, histVars>>

PsiThread_drop == DropWrite \/ DropJoin \/ DropFields

\* ---------------------------------------------------------------- tokio.rs
\* PsiTokioReactor::new(map): each entry becomes a PsiTokioReactorInner with
\* its own clone of tx; the original tx is dropped when new returns.  If
\* AsyncFd::with_interest fails for entry f (f = 0: none fails), collect()
\* stops and everything built or still in the map is dropped.
PsiTokioReactor_new(o, f) ==
    LET n == Len(o)
        inMap(h) == \E k \in Keys : map[k] = h
    IN
    /\ phase = "monitor" /\ ~panicked
    /\ map' = [k \in Ids |-> NoFd]
    /\ IF f = 0
       THEN /\ phase' = "tokio"
            /\ ids' = o
            /\ fds' = [i \in 1..n |-> map[o[i]]]
            /\ tinner' = [i \in 1..n |-> TRUE]
            /\ kpc' = [i \in 1..n |-> "none"]
            /\ kabort' = [i \in 1..n |-> FALSE]
            /\ ntx' = n
            /\ rx' = "open"
            /\ keyOf' = [h \in Handles |-> IF inMap(h) THEN CHOOSE k \in Keys : map[k] = h ELSE NoKey]
            /\ res' = Result("Ok")
            /\ UNCHANGED fdst
       ELSE /\ phase' = "buildfailed"
            /\ res' = Result("Err")
            /\ fdst' = [h \in Handles |-> IF inMap(h) THEN "closed" ELSE fdst[h]]
            /\ UNCHANGED <<ids, fds, tinner, kpc, kabort, ntx, rx, keyOf>>
    /\ UNCHANGED <<fromb, nfd, panicked, handle, nstart, tpc, tev, refs, epfd, efd, efdw, dpc,
                   aborth, chan, cpc, ready,
                   replaced, rcvd, wakes, fired, reported, sent, sentAfterAbort, kfailed, nfires, nfaults>>

\* PsiMonitor::into_tokio_reactor
into_tokio_reactor ==
    \E o \in Orders(Keys) : \E f \in 0..Len(o) : PsiTokioReactor_new(o, f)

\* the slots start() reaches: collect::<Option<_>>() stops at the first None
Taken == IF \A i \in DOMAIN tinner : tinner[i] THEN DOMAIN tinner ELSE {}

\* PsiTokioReactor::start: take() every inner and spawn its run(); the
\* abort handles are collected into an Option, which is None as soon as one
\* inner was already taken.  Always returns Ok(()).
PsiTokioReactor_start ==
    /\ phase = "tokio" /\ cpc = "idle" /\ dpc = "alive"
    /\ nstart < MaxStarts
    /\ nstart' = nstart + 1
    /\ aborth' = IF \A i \in DOMAIN tinner : tinner[i] THEN <<Taken>> ELSE <<>>
    /\ tinner' = [i \in DOMAIN tinner |-> IF i \in Taken THEN FALSE ELSE tinner[i]]
    /\ kpc' = [i \in DOMAIN kpc |-> IF i \in Taken THEN "await" ELSE kpc[i]]
    /\ res' = Result("Ok")
    /\ UNCHANGED <<phase, map, fdst, fromb, nfd, panicked,
                   ids, fds, handle, tpc, tev, refs, epfd, efd, efdw, dpc,
                   kabort, ntx, chVars, histVars>>

\* a task ends (its loop broke, or it was cancelled): the future is dropped,
\* with it the AsyncFd<PsiFd> and the task's tx
EndTask(i, how) ==
    /\ kpc' = [kpc EXCEPT ![i] = how]
    /\ fdst' = [fdst EXCEPT ![fds[i]] = "closed"]
    /\ ready' = ready \ {i - 1}
    /\ ntx' = ntx - 1

\* run(), line 97: self.fd.readable().await returns Ok(guard)
TaskReadable(i) ==
    /\ phase = "tokio" /\ i \in DOMAIN kpc /\ kpc[i] = "await"
    /\ (i - 1) \in ready
    /\ ready' = ready \ {i - 1}
    /\ reported' = [reported EXCEPT ![fds[i]] = @ + 1]
    /\ kpc' = [kpc EXCEPT ![i] = "ok"]
    /\ UNCHANGED <<monVars, thrVars, tinner, aborth, kabort, ntx, rx, chan, cpc,
                   replaced, keyOf, rcvd, wakes, fired, sent, sentAfterAbort, kfailed, nfires, nfaults>>

\* run(), line 104: self.fd.readable().await returns Err(e)
TaskAwaitFailed(i) ==
    /\ phase = "tokio" /\ i \in DOMAIN kpc /\ kpc[i] = "await"
    /\ nfaults < MaxFaults
    /\ nfaults' = nfaults + 1
    /\ kpc' = [kpc EXCEPT ![i] = "err"]
    /\ kfailed' = kfailed \cup {i}
    /\ UNCHANGED <<monVars, thrVars, tinner, aborth, kabort, ntx, chVars,
                   replaced, keyOf, rcvd, wakes, fired, reported, sent, sentAfterAbort, nfires>>

\* run() treating a failed await as fatal, the way epoll_loop does: the
\* Failure is sent and the loop is left
TaskSend_fatal(i) ==
    /\ phase = "tokio" /\ i \in DOMAIN kpc /\ kpc[i] \in {"ok", "err"}
    /\ LET ev == IF kpc[i] = "ok" THEN Ready(ids[i]) ELSE Failure("EIO") IN
       IF rx = "open"
       THEN /\ chan' = Append(chan, ev)
            /\ sent' = Append(sent, ev)
            /\ sentAfterAbort' = (sentAfterAbort \/ kabort[i])
            /\ IF kpc[i] = "ok"
               THEN /\ kpc' = [kpc EXCEPT ![i] = "await"]
                    /\ UNCHANGED <<fdst, ready, ntx>>
               ELSE /\ kpc' = [kpc EXCEPT ![i] = "done"]
                    /\ fdst' = [fdst EXCEPT ![fds[i]] = "closed"]
                    /\ ready' = ready \ {i - 1}
                    /\ ntx' = ntx - 1
       ELSE /\ kpc' = [kpc EXCEPT ![i] = "done"]
            /\ fdst' = [fdst EXCEPT ![fds[i]] = "closed"]
            /\ ready' = ready \ {i - 1}
            /\ ntx' = ntx - 1
            /\ UNCHANGED <<chan, sent, sentAfterAbort>>
    /\ UNCHANGED <<phase, map, fromb, nfd, panicked, res, thrVars, tinner, aborth, kabort,
                   rx, cpc, replaced, keyOf, rcvd, wakes, fired, reported, kfailed, nfires, nfaults>>

\* run(), lines 99-102 and 105-107: send Ready(id) (then clear_ready) or
\* Failure(e); a failed send breaks the loop
TaskSend(i) ==
    /\ phase = "tokio" /\ i \in DOMAIN kpc /\ kpc[i] \in {"ok", "err"}
    /\ LET ev == IF kpc[i] = "ok" THEN Ready(ids[i]) ELSE Failure("EIO") IN
       IF rx = "open"
       THEN /\ chan' = Append(chan, ev)
            /\ sent' = Append(sent, ev)
            /\ sentAfterAbort' = (sentAfterAbort \/ kabort[i])
            /\ kpc' = [kpc EXCEPT ![i] = "await"]
            /\ UNCHANGED <<fdst, ready, ntx>>
       ELSE /\ EndTask(i, "done")
            /\ UNCHANGED <<chan, sent, sentAfterAbort>>
    /\ UNCHANGED <<phase, map, fromb, nfd, panicked, res, thrVars, tinner, aborth, kabort,
                   rx, cpc, replaced, keyOf, rcvd, wakes, fired, reported, kfailed, nfires, nfaults>>

\* the runtime drops a task whose abort was requested, at its await point
TaskCancelled(i) ==
    /\ phase = "tokio" /\ i \in DOMAIN kpc /\ kpc[i] = "await"
    /\ kabort[i]
    /\ EndTask(i, "cancelled")
    /\ UNCHANGED <<phase, map, fromb, nfd, panicked, res, thrVars, tinner, aborth, kabort,
                   rx, chan, cpc, histVars>>

\* PsiTokioReactorInner::run, one step of the task of slot i
run(i) ==
    \/ TaskReadable(i)
    \/ TaskAwaitFailed(i)
    \/ TaskSend(i)
    \/ TaskCancelled(i)

TaskStep == \E i \in 1..MaxSlots : run(i)

\* PsiTokioReactor::recv, lines 53-58: the check of self.abort_handles
PsiTokioReactor_recv ==
    /\ phase = "tokio" /\ cpc = "idle" /\ dpc = "alive"
    /\ IF aborth = <<>>
       THEN /\ res' = Result("NotConnected")
            /\ UNCHANGED cpc
       ELSE /\ cpc' = "recv"
            /\ res' = Result("Pending")
    /\ UNCHANGED <<phase, map, fdst, fromb, nfd, panicked, thrVars, tokVars,
                   rx, chan, ready, histVars>>

\* a receive that reports a closed channel as soon as the channel is empty
PsiTokioReactor_recv_return_eager ==
    /\ phase = "tokio" /\ cpc = "recv"
    /\ \/ /\ chan # <<>>
          /\ res' = Head(chan)
          /\ chan' = Tail(chan)
          /\ rcvd' = Append(rcvd, Head(chan))
       \/ /\ chan = <<>>
          /\ res' = Result("BrokenPipe")
          /\ UNCHANGED <<chan, rcvd>>
    /\ cpc' = "idle"
    /\ UNCHANGED <<phase, map, fdst, fromb, nfd, panicked, thrVars, tokVars,
                   rx, ready,
                   replaced, keyOf, wakes, fired, reported, sent, sentAfterAbort, kfailed, nfires, nfaults>>

\* PsiTokioReactor::recv, lines 59-62: rx.recv().await resolves to the oldest
\* event, or to None once the channel is empty and every sender is gone
PsiTokioReactor_recv_return ==
    /\ phase = "tokio" /\ cpc = "recv"
    /\ \/ /\ chan # <<>>
          /\ res' = Head(chan)
          /\ chan' = Tail(chan)
          /\ rcvd' = Append(rcvd, Head(chan))
       \/ /\ chan = <<>> /\ ntx = 0
          /\ res' = Result("BrokenPipe")
          /\ UNCHANGED <<chan, rcvd>>
    /\ cpc' = "idle"
    /\ UNCHANGED <<phase, map, fdst, fromb, nfd, panicked, thrVars, tokVars,
                   rx, ready,
                   replaced, keyOf, wakes, fired, reported, sent, sentAfterAbort, kfailed, nfires, nfaults>>

\* Drop for PsiTokioReactor, lines 67-74: abort every retained handle
DropAbort ==
    /\ phase = "tokio" /\ dpc = "alive" /\ cpc = "idle"
    /\ kabort' = [i \in DOMAIN kabort |-> kabort[i] \/ (aborth # <<>> /\ i \in aborth[1])]
    /\ aborth' = <<>>
    /\ dpc' = "rx"
    /\ res' = Result("Dropping")
    /\ UNCHANGED <<phase, map, fdst, fromb, nfd, panicked, 
                   ids, fds, handle, nstart, tpc, tev, refs, epfd, efd, efdw,
                   tinner, kpc, ntx, chVars, histVars>>

\* after drop() the fields are dropped in declaration order (lines 19-21):
\* rx, inner (the inners never taken, with their fd and tx), abort_handles
DropReactorFields ==
    /\ phase = "tokio"
    /\ \/ /\ dpc = "rx"
          /\ rx' = "dropped" /\ chan' = <<>>
          /\ dpc' = "inner"
          /\ UNCHANGED <<tinner, fdst, ready, ntx>>
       \/ /\ dpc = "inner"
          /\ tinner' = [i \in DOMAIN tinner |-> FALSE]
          /\ fdst' = [h \in Handles |->
                        IF \E i \in DOMAIN tinner : tinner[i] /\ fds[i] = h
                        THEN "closed" ELSE fdst[h]]
          /\ ready' = {s \in ready : ~tinner[s + 1]}
          /\ ntx' = ntx - Cardinality({i \in DOMAIN tinner : tinner[i]})
          /\ dpc' = "done"
          /\ UNCHANGED <<rx, chan>>
    /\ UNCHANGED <<phase, map, fromb, nfd, panicked, res,
                   ids, fds, handle, nstart, tpc, tev, refs, epfd, efd, efdw,
                   aborth, kpc, kabort, cpc, histVars>>

PsiTokioReactor_drop == DropAbort \/ DropReactorFields

\* ---------------------------------------------------------------- the program
Monitor == AddFd \/ RemoveFd \/ clear \/ into_thread \/ into_tokio_reactor

ThreadEngine ==
    \/ ThreadStart
    \/ ThreadStep
    \/ PsiThread_recv
    \/ PsiThread_recv_return
    \/ PsiThread_drop

TokioEngine ==
    \/ PsiTokioReactor_start
    \/ TaskStep
    \/ PsiTokioReactor_recv
    \/ PsiTokioReactor_recv_return
    \/ PsiTokioReactor_drop

Next == Monitor \/ ThreadEngine \/ TokioEngine \/ TriggerFires

Spec == Init /\ [][Next]_vars

\* a run that fills and empties a PsiMonitor and never builds an engine
RegistryNext == RegistryAddFd \/ RemoveFd \/ clear

RegistrySpec == Init /\ [][RegistryNext]_vars

\* What runs without the caller or the kernel choosing it: a spawned thread
\* is scheduled (a wait with something to report returns, a batch is worked
\* off, a wait on an empty buffer fails), a drop that began runs to its end,
\* a receive that can return does, and the runtime polls its tasks.
Fairness ==
    /\ \A t \in Threads :
          /\ WF_vars(\E b \in Batches : WaitOk(t, b))
          /\ WF_vars(Dispatch(t))
          /\ WF_vars(WaitFailed(t, "EINVAL"))
    /\ WF_vars(DropJoin) /\ WF_vars(DropFields)
    /\ WF_vars(PsiThread_recv_return) /\ WF_vars(PsiTokioReactor_recv_return)
    /\ \A i \in 1..MaxSlots :
          WF_vars(TaskReadable(i)) /\ WF_vars(TaskSend(i)) /\ WF_vars(TaskCancelled(i))
    /\ WF_vars(DropReactorFields)

FairSpec == Spec /\ Fairness

\* ---------------------------------------------------------------- claims
Running(t)    == tpc[t] \in {"wait", "dispatch"}
AllExited     == nstart >= 1 /\ \A t \in Threads : ~Running(t)
EngineBuilt   == phase \in {"thread", "tokio"}
IsEvent(r)    == IsReady(r) \/ IsFailure(r)

\* C1: in PsiThread, once every dispatch thread has exited and every event
\* it sent has been received, a Recv returns the channel-closed error: a
\* caller inside recv() is then never left without a way to return.
C1_RecvClosedAfterExit ==
    (phase = "thread" /\ cpc = "recv" /\ AllExited /\ chan = <<>>)
        => ENABLED PsiThread_recv_return

\* C2: once a started PsiThread is being dropped (the wake handle is
\* written), every dispatch thread it spawned eventually exits.
C2_DropTerminatesThread ==
    (phase = "thread" /\ dpc = "join" /\ nstart >= 1) ~> (\A t \in Threads : ~Running(t))

\* C3: stop-before-release: while a registered handle of a PsiThread is
\* closed, no dispatch loop is still running on the multiplexer and the
\* multiplexer is closed already.
C3_StopBeforeRelease ==
    phase = "thread" =>
        \A i \in DOMAIN fds :
            fdst[fds[i]] = "closed" => (epfd = "closed" /\ \A t \in Threads : ~Running(t))

\* C4: a step that is a recv() call on an engine whose start() never
\* returned Ok yields the not-started error, leaves the caller outside the
\* channel receive (it does not block) and takes no event off the channel.
C4_RecvBeforeStart ==
    [][(nstart = 0 /\ (PsiThread_recv \/ PsiTokioReactor_recv))
          => (res' = Result("NotConnected") /\ cpc' = "idle" /\ chan' = chan)]_vars

\* C4 witness: recv() was called on a built engine that was never started
C4_Witness == EngineBuilt /\ nstart = 0 /\ res = Result("NotConnected")

\* C5: start() succeeds at most once on an engine (a second call is an
\* error), and a PsiThread never has more than one dispatch thread.
C5_StartOnce ==
    /\ nstart <= 1
    /\ Cardinality({t \in Threads : tpc[t] # "none"}) <= 1

\* Ready events sent so far under the key handle h was registered with
ReadySent(h) == CountIn(sent, Ready(keyOf[h]))
\* occurrences of handle h that a dispatch thread holds in its batch, unsent
InBatch(h) ==
    Cardinality({t \in Threads :
        \E j \in DOMAIN tev[t] : tev[t][j] # SENTINEL /\ fds[tev[t][j] + 1] = h})

\* C6 as claimed: every readiness occurrence of a registered handle of a
\* started PsiThread that is no longer pending (in the kernel or in a batch
\* in hand) has produced exactly one Ready, under the handle's own Id.
C6_EveryOccurrenceOneReady ==
    (phase = "thread" /\ nstart >= 1) =>
        \A i \in DOMAIN fds :
            ReadySent(fds[i]) + InBatch(fds[i]) + (IF (i - 1) \in ready THEN 1 ELSE 0)
                = fired[fds[i]]

\* C6 amended: every Ready carries the Id of a registered handle that fired;
\* a handle never yields more Ready events than occurrences the multiplexer
\* reported for it, nor more reports than occurrences; and as long as the
\* engine is not being dropped every reported occurrence yields exactly one.
C6_ReportedOccurrenceOneReady ==
    phase = "thread" =>
        /\ \A j \in DOMAIN sent :
              IsReady(sent[j]) =>
                  \E i \in DOMAIN fds : keyOf[fds[i]] = sent[j][2] /\ fired[fds[i]] >= 1
        /\ \A i \in DOMAIN fds :
              /\ ReadySent(fds[i]) + InBatch(fds[i]) <= reported[fds[i]]
              /\ reported[fds[i]] <= fired[fds[i]]
              /\ dpc = "alive" => ReadySent(fds[i]) + InBatch(fds[i]) = reported[fds[i]]

\* C6 witness: two handles are registered, one fired and its Ready was sent
\* and received, the other did not fire
C6_Witness ==
    /\ phase = "thread" /\ Len(fds) = 2
    /\ \E i, j \in DOMAIN fds :
          /\ fired[fds[i]] = 1 /\ fired[fds[j]] = 0
          /\ res = Ready(keyOf[fds[i]])

\* C7: in PsiThread nothing is sent after a Failure: a Failure is the last
\* event of the stream, and there is at most one.
C7_FailureIsLast ==
    phase = "thread" => \A j \in 1..(Len(sent) - 1) : ~IsFailure(sent[j])

\* C8: when building a PsiThread fails, every handle taken from the registry
\* is closed, and so are the multiplexer and the wake handle.
C8_BuildFailureReleasesAll ==
    phase = "buildfailed" =>
        /\ \A h \in Handles : fdst[h] # "open"
        /\ epfd # "open" /\ efd # "open"

Unvalidated(h) == fdst[h] # "none" /\ ~fromb[h]

C10_FailureDoesNotStopSiblings ==
    (phase = "tokio" /\ dpc = "alive") =>
        /\ \A i \in DOMAIN kpc :
              kpc[i] # "none" =>
                  /\ kpc[i] \in {"await", "ok", "err"}
                  /\ ReadySent(fds[i]) + (IF kpc[i] = "ok" THEN 1 ELSE 0) = reported[fds[i]]
        /\ CountIn(sent, Failure("EIO")) + Cardinality({i \in DOMAIN kpc : kpc[i] = "err"})
              = nfaults

\* C10 witness: a task failed and its Failure was sent; afterwards the handle
\* of a sibling that never failed fired and the sibling's Ready was sent
C10_Witness ==
    /\ phase = "tokio"
    /\ \E i \in kfailed : \E j \in DOMAIN kpc \ kfailed :
          \E a, b \in DOMAIN sent :
              a < b /\ IsFailure(sent[a]) /\ sent[b] = Ready(ids[j]) /\ i # j

\* C11: in PsiTokioReactor nothing is sent on the event channel by a task
\* once Drop has requested its cancellation.
C11_NoSendAfterAbort ==
    phase = "tokio" => ~sentAfterAbort

\* C12: in PsiTokioReactor the abort handle of every spawned task is held in
\* abort_handles as long as the engine is alive, and once Drop has run
\* cancellation was requested for every spawned task.
C12_AbortHandlesRetained ==
    phase = "tokio" =>
        \A i \in DOMAIN kpc :
            kpc[i] # "none" =>
                IF dpc = "alive" THEN aborth # <<>> /\ i \in aborth[1] ELSE kabort[i]

\* a spawned task that has not ended: it owns a sender
TaskAlive(i) == kpc[i] \in {"await", "ok", "err"}
\* no inner is left in the engine and no task is alive: every sender is gone
SendersGone == \A i \in DOMAIN kpc : ~tinner[i] /\ ~TaskAlive(i)

\* C13: in a started PsiTokioReactor a caller inside recv() can return as
\* soon as every sender is gone, and cannot while the channel is empty and a
\* task is alive; a recv() that returned the channel-closed error did so with
\* every sender gone, no task alive and every event sent already received.
C13_RecvClosedWhenSendersGone ==
    phase = "tokio" =>
        /\ (cpc = "recv" /\ SendersGone) => ENABLED PsiTokioReactor_recv_return
        /\ (cpc = "recv" /\ chan = <<>> /\ \E i \in DOMAIN kpc : TaskAlive(i))
              => ~ENABLED PsiTokioReactor_recv_return
        /\ res = Result("BrokenPipe") => (nstart >= 1 /\ SendersGone /\ rcvd = sent)

\* C13 witness: a started engine built from an empty registry returned the
\* channel-closed error from recv()
C13_Witness ==
    phase = "tokio" /\ nstart >= 1 /\ ids = <<>> /\ res = Result("BrokenPipe")

\* C14: a dispatch step that meets the sentinel ends its thread and sends
\* nothing (no Failure, no Ready for the rest of the batch, which is dropped);
\* a thread that has ended never runs again, so it takes no later wake; and
\* whatever is sent in a PsiThread is sent by a thread that has not ended.
C14_SentinelStopsLoop ==
    [][\A t \in Threads :
          /\ (tpc[t] = "dispatch" /\ Head(tev[t]) = SENTINEL /\ Dispatch(t))
                => (sent' = sent /\ chan' = chan /\ tpc'[t] = "exited" /\ tev'[t] = <<>>)
          /\ tpc[t] = "exited" => (tpc'[t] = "exited" /\ tev'[t] = <<>>)
          /\ (phase = "thread" /\ sent' # sent) => \E u \in Threads : Running(u) /\ tpc'[u] # "none"
      ]_vars

\* C14 witness: the only dispatch thread met the sentinel in a wake that also
\* reported a fired slot; it ended, and no Ready and no Failure was sent
C14_Witness ==
    /\ phase = "thread" /\ nstart = 1 /\ tpc[1] = "exited" /\ efdw
    /\ sent = <<>>
    /\ \E i \in DOMAIN fds : reported[fds[i]] = 1

\* C15: a wait of the dispatch loop that is interrupted sends nothing, leaves
\* the thread in the loop at the wait, and leaves what the multiplexer has
\* to report as it was.
C15_InterruptedWaitRetried ==
    [][\A t \in Threads :
          WaitInterrupted(t) =>
              /\ sent' = sent /\ chan' = chan
              /\ tpc'[t] = "wait" /\ refs' = refs /\ epfd' = epfd
              /\ ready' = ready /\ reported' = reported /\ efdw' = efdw
      ]_vars

\* C15 witness: the only dispatch thread was interrupted once, is still in
\* its loop, and a Ready was sent and no Failure
C15_Witness ==
    /\ phase = "thread" /\ nstart = 1 /\ nfaults = 1 /\ Running(1)
    /\ sent # <<>> /\ \A j \in DOMAIN sent : IsReady(sent[j])

\* C16: a wait that fails with EBADF ends the thread and sends nothing; a
\* wait that fails with any other errno the loop does not retry ends the
\* thread after sending one Failure carrying that errno (the send reaches the
\* channel as long as the receiver exists).
C16_BadHandleIsCleanExit ==
    [][\A t \in Threads : \A e \in {"EBADF", "EFAULT", "EINVAL"} :
          WaitFailed(t, e) =>
              /\ tpc'[t] = "exited"
              /\ e = "EBADF" => (sent' = sent /\ chan' = chan)
              /\ (e # "EBADF" /\ rx = "open")
                    => (sent' = Append(sent, Failure(e)) /\ chan' = Append(chan, Failure(e)))
      ]_vars

\* C16 witness: the only dispatch thread of a live engine ended on a failed
\* wait (nothing else ends it before drop) and no Failure was sent
C16_Witness ==
    /\ phase = "thread" /\ nstart = 1 /\ dpc = "alive" /\ tpc[1] = "exited"
    /\ nfaults = 1
    /\ \A j \in DOMAIN sent : ~IsFailure(sent[j])

\* C17: in PsiThread, as long as the receiver exists, what recv() has returned
\* followed by what is still in the channel is what was sent, in that order;
\* and every Ready a dispatch thread sends is for the first slot of its wake
\* not yet handled, after which it moves to the next slot the wake reported.
C17_FifoAndWakeOrder ==
    [][/\ (phase' = "thread" /\ rx' = "open") => rcvd' \o chan' = sent'
       /\ \A t \in Threads :
             (tpc[t] = "dispatch" /\ Dispatch(t) /\ sent' # sent) =>
                 /\ sent' = Append(sent, Ready(ids[Head(tev[t]) + 1]))
                 /\ tev'[t] = Tail(tev[t])
      ]_vars

\* C17 witness: one wake of the only dispatch thread reported two fired
\* slots; both Ready events were sent and recv() returned them in that order
C17_Witness ==
    /\ phase = "thread" /\ nstart = 1 /\ wakes = 1
    /\ Len(sent) = 2 /\ IsReady(sent[1]) /\ IsReady(sent[2]) /\ sent[1] # sent[2]
    /\ rcvd = sent

\* C18: while the registry exists, the open handles are exactly the handles
\* in it and no handle sits under two identifiers; a step that puts a new
\* handle under an identifier already present closes the old handle, opens
\* the new one, and leaves the number of entries, every other entry and
\* every other handle as they were.
C18_RegistryReplace ==
    [][/\ phase' = "monitor" =>
             /\ \A h \in Handles : fdst'[h] = "open" <=> \E k \in Ids : map'[k] = h
             /\ \A k1, k2 \in Ids : (map'[k1] # NoFd /\ map'[k1] = map'[k2]) => k1 = k2
       /\ \A id \in Ids :
             (phase = "monitor" /\ map[id] # NoFd /\ map'[id] # NoFd /\ map'[id] # map[id]) =>
                 /\ fdst'[map[id]] = "closed" /\ fdst'[map'[id]] = "open"
                 /\ \A k \in Ids \ {id} : map'[k] = map[k]
                 /\ Cardinality({k \in Ids : map'[k] # NoFd}) = Cardinality(Keys)
                 /\ \A h \in Handles \ {map[id], map'[id]} : fdst'[h] = fdst[h]
      ]_vars

\* C18 witness: the registry holds two entries, one of them put under an
\* identifier that already had a handle, which is now closed
C18_Witness ==
    /\ phase = "monitor" /\ ~panicked /\ Cardinality(Keys) = 2
    /\ replaced # {} /\ \A h \in replaced : fdst[h] = "closed"
    /\ res = Result("Unit")

\* C19: on an engine whose start() has returned Ok, recv() never returns the
\* not-started error, however many times start() is called.
C19_StartedNeverNotStarted ==
    (EngineBuilt /\ nstart >= 1) => res # Result("NotConnected")

\* C20: a PsiThread built from an empty registry never sends an event, and
\* its dispatch thread ends only after the wake handle was written.
C20_EmptyRegistrySilent ==
    (phase = "thread" /\ ids = <<>>) =>
        /\ sent = <<>>
        /\ \A t \in Threads : tpc[t] = "exited" => efdw

\* C21: dropping a PsiThread that never spawned a dispatch thread never
\* waits (every step of the drop can be taken, the join is skipped), and it
\* releases each resource at its own stage and nowhere else: the multiplexer
\* is open until `inner` is dropped, every registered handle until `_fds` is
\* dropped, the wake handle until `efd` is dropped, and all are closed when
\* the drop is done.
C21_DropUnstartedReleasesAll ==
    (phase = "thread" /\ nstart = 0) =>
        /\ handle = 0 /\ \A t \in Threads : tpc[t] = "none"
        /\ dpc \notin {"alive", "done"} => ENABLED PsiThread_drop
        /\ epfd = (IF dpc \in {"alive", "join", "rx", "inner"} THEN "open" ELSE "closed")
        /\ \A i \in DOMAIN fds :
              fdst[fds[i]] = (IF dpc \in {"efd", "done"} THEN "closed" ELSE "open")
        /\ efd = (IF dpc = "done" THEN "closed" ELSE "open")
        /\ refs = (IF dpc \in {"alive", "join", "rx", "inner"} THEN 1 ELSE 0)

\* C21 witness: an engine with two registered handles was built, never
\* started, and its drop is done
C21_Witness ==
    phase = "thread" /\ nstart = 0 /\ Len(fds) = 2 /\ dpc = "done"

====
